---- MODULE Spec2Model ----
(***************************************************************************)
(* A model of workshift.py: the pipeline read_and_process_data and the     *)
(* helpers it calls (try_read_csv, clean_and_validate_data, parse_dates).  *)
(*                                                                         *)
(* A DataFrame is a record [cols, dtype, rows]: cols is the sequence of    *)
(* column labels, dtype the dtype pandas inferred for 'Activity Number'    *)
(* when the file was read, rows the sequence of rows.  A row is            *)
(* [ix, c]: ix is its index label (its position in the file, which every   *)
(* pandas filter keeps) and c maps each column label to a cell.            *)
(*                                                                         *)
(* A cell is [k, s, t]:                                                    *)
(*   k = "nan"   a missing value (NaN / None / NaT), what pd.isna accepts  *)
(*   k = "str"   a text, s its characters                                  *)
(*   k = "num"   a number (a numeric cell of the file)                     *)
(*   k = "date"  a text that spells an instant t in the layout s:          *)
(*               <<"%y">> is day/month/2-digit-year hour:minute,           *)
(*               <<"%Y">> is day/month/4-digit-year hour:minute            *)
(*   k = "ts"    a datetime value, the instant t                           *)
(* Instants are counted in minutes, the resolution of both layouts.        *)
(***************************************************************************)
EXTENDS Integers, Sequences, FiniteSets, TLC

VARIABLES file, args, pc, df, attempts, parse_log, invalid_dates, window, err

vars == <<file, args, pc, df, attempts, parse_log, invalid_dates, window, err>>

\* Bounds of the model: rows per table, and the latest instant.
MaxRows == 2
MaxT == 1

Times == 0 .. MaxT

-----------------------------------------------------------------------------
\* Cells

NaN == [k |-> "nan", s |-> <<>>, t |-> 0]
Str(chars) == [k |-> "str", s |-> chars, t |-> 0]
Num == [k |-> "num", s |-> <<>>, t |-> 0]
DateText(layout, t) == [k |-> "date", s |-> <<layout>>, t |-> t]
Ts(t) == [k |-> "ts", s |-> <<>>, t |-> t]

\* pd.isna
isna(cell) == cell.k = "nan"

-----------------------------------------------------------------------------
\* Program constants

\* Mutant: latin1, which decodes any byte, is tried first.
encodings_latin1_first == <<"latin1", "utf-8", "iso-8859-1", "cp1252">>

encodings == <<"utf-8", "latin1", "iso-8859-1", "cp1252">>

required_columns ==
    << "Activity Number", "Activity", "Milestone/task",
       "Start Date (CET)", "End Date (CET)", "Responsible Person" >>

date_columns == << "Start Date (CET)", "End Date (CET)" >>

\* The one pattern of parse_dates, and the pattern of the two filter arguments.
date_formats == << "%y" >>
filter_format == "%Y"

Prod == << "P", "r", "o", "d" >>

-----------------------------------------------------------------------------
\* Helpers over sequences

Range(seq) == { seq[i] : i \in DOMAIN seq }

HasCol(d, col) == col \in Range(d.cols)

\* datetime.strptime(str(cell), layout): TRUE when it returns, FALSE when it
\* raises ValueError.  Only a text in that very layout is accepted; the str()
\* of a number or of a datetime value is in neither layout.
strptime_ok(cell, layout) == cell.k = "date" /\ cell.s = <<layout>>

\* str.startswith
startswith(chars, prefix) ==
    /\ Len(chars) >= Len(prefix)
    /\ SubSeq(chars, 1, Len(prefix)) = prefix

-----------------------------------------------------------------------------
\* The helpers of workshift.py, as operators

\* os.path.splitext(file_path)[1].lower()
lower(ext) ==
    CASE ext = ".CSV" -> ".csv"
      [] ext = ".XLSX" -> ".xlsx"
      [] ext = ".XLS" -> ".xls"
      [] OTHER -> ext

\* The dtype pandas gives 'Activity Number' when it reads the table: object as
\* soon as one cell of the column is a text, a numeric dtype (float64 or int64)
\* when every cell is a number or missing.  Row filters keep the dtype.
infer_dtype(table) ==
    IF "Activity Number" \notin Range(table.cols) THEN "absent"
    ELSE IF \E i \in DOMAIN table.rows :
                table.rows[i]["Activity Number"].k \in {"str", "date"}
         THEN "object"
         ELSE "float64"

\* What pd.read_csv / pd.read_excel returns for the file: row i gets index i.
read_table(f, how) ==
    [ cols  |-> f.table.cols,
      dtype |-> infer_dtype(f.table),
      enc   |-> how,
      rows  |-> [ i \in DOMAIN f.table.rows |->
                    [ix |-> i, c |-> f.table.rows[i]] ] ]

\* df.dropna(how='all'): a row goes when every cell of it is missing.
all_missing(row) == \A col \in DOMAIN row.c : isna(row.c[col])

dropna_all(rows) == SelectSeq(rows, LAMBDA r : ~all_missing(r))

\* Mutant: the search stops at the first required column that is absent.
missing_columns_first(d) ==
    LET every == SelectSeq(required_columns, LAMBDA col : ~HasCol(d, col))
    IN  IF every = <<>> THEN <<>> ELSE << every[1] >>

\* missing_columns of clean_and_validate_data, in the order of required_columns.
missing_columns(d) == SelectSeq(required_columns, LAMBDA col : ~HasCol(d, col))

\* clean_and_validate_data: the returned frame; it raises when
\* missing_columns(d) is not empty.
clean_and_validate_data(d) == [d EXCEPT !.rows = dropna_all(d.rows)]

\* parse_dates: the value returned for a cell.
parse_dates(cell) ==
    IF isna(cell) THEN NaN
    ELSE IF \E i \in DOMAIN date_formats : strptime_ok(cell, date_formats[i])
         THEN Ts(cell.t)
         ELSE NaN

\* Mutant: the missing-value test comes after the message.
parse_dates_prints_missing(cell) ==
    ~ \E i \in DOMAIN date_formats : strptime_ok(cell, date_formats[i])

\* parse_dates: TRUE when it prints "No se pudo parsear la fecha" for the cell.
parse_dates_prints(cell) ==
    /\ ~isna(cell)
    /\ ~ \E i \in DOMAIN date_formats : strptime_ok(cell, date_formats[i])

\* Mutant: only the start date is looked at.
has_start_date(row) == ~isna(row.c["Start Date (CET)"])

\* df.dropna(subset=['Start Date (CET)', 'End Date (CET)'])
has_both_dates(row) ==
    /\ ~isna(row.c["Start Date (CET)"])
    /\ ~isna(row.c["End Date (CET)"])

\* Mutant: one row without a date empties the frame.
dropna_dates_all_or_nothing(rows) ==
    IF \A i \in DOMAIN rows : has_both_dates(rows[i]) THEN rows ELSE <<>>

dropna_dates(rows) == SelectSeq(rows, has_both_dates)

\* .str.startswith('Prod', na=False) on one element of an object column: a
\* text is tested, anything else (missing, a number) yields NaN, which
\* na=False turns into False.
prefix_keep(cell) ==
    IF cell.k = "str" THEN startswith(cell.s, Prod) ELSE FALSE

\* Mutant: the two bounds are exclusive.
range_keep_exclusive(row, w) ==
    /\ row.c["Start Date (CET)"].t > w.start_date
    /\ row.c["End Date (CET)"].t < w.end_date

\* Mutant: the row is kept when it overlaps the window.
range_keep_overlap(row, w) ==
    /\ row.c["End Date (CET)"].t >= w.start_date
    /\ row.c["Start Date (CET)"].t <= w.end_date

\* (df['Start Date (CET)'] >= start_date) & (df['End Date (CET)'] <= end_date)
range_keep(row, w) ==
    /\ row.c["Start Date (CET)"].t >= w.start_date
    /\ row.c["End Date (CET)"].t <= w.end_date

\* df['Duration (Hours)']: end - start.  The cell holds the difference in
\* minutes; the code divides the seconds by 3600.
with_duration(row) ==
    [ ix |-> row.ix,
      c  |-> [ col \in DOMAIN row.c \cup {"Duration (Hours)"} |->
                 IF col = "Duration (Hours)"
                 THEN [ k |-> "dur", s |-> <<>>,
                        t |-> row.c["End Date (CET)"].t
                              - row.c["Start Date (CET)"].t ]
                 ELSE row.c[col] ] ]

\* Mutant: the exception is raised again as it is.
wrap_reraise(e) == e

\* except Exception as e: raise Exception(f"Error al procesar el archivo: ...")
wrap(e) == [e EXCEPT !.wrapped = TRUE]

\* The stages of read_and_process_data in the order of its statements.
stages ==
    << "Exists", "Decode", "Validate", "NormalizeDates", "DropNullDates",
       "FilterPrefix", "ParseWindow", "FilterRange", "ComputeDuration", "Done" >>

\* Mutant: the window is parsed before the prefix filter runs.
stage_after_window_first(stage) ==
    CASE stage = "DropNullDates" -> "ParseWindow"
      [] stage = "ParseWindow" -> "FilterPrefix"
      [] stage = "FilterPrefix" -> "FilterRange"
      [] OTHER -> LET i == CHOOSE j \in DOMAIN stages : stages[j] = stage
                  IN  stages[i + 1]

\* The statement that follows a stage that did not raise.
stage_after(stage) ==
    LET i == CHOOSE j \in DOMAIN stages : stages[j] = stage
    IN  stages[i + 1]

-----------------------------------------------------------------------------
\* State before the first statement

NoDf == [cols |-> <<>>, dtype |-> "absent", enc |-> "", rows |-> <<>>]

NoErr == [kind |-> "", what |-> "", stage |-> "", wrapped |-> FALSE,
          missing |-> <<>>]

NoWindow == [parsed |-> FALSE, start_date |-> 0, end_date |-> 0]

NoReport == [col \in Range(date_columns) |-> <<>>]

\* An exception raised by the statement of the current stage.
Error(kind, what) ==
    [kind |-> kind, what |-> what, stage |-> pc, wrapped |-> FALSE,
     missing |-> <<>>]

\* The call is running: it has neither returned nor raised.
Running == pc \notin {"Done", "Failed"}

-----------------------------------------------------------------------------
\* read_and_process_data, one action per stage

\* if not os.path.exists(file_path): raise FileNotFoundError -- before the try.
CheckExists ==
    /\ pc = "Exists"
    /\ IF file.exists
       THEN /\ pc' = stage_after(pc)
            /\ err' = err
       ELSE /\ pc' = "Failed"
            /\ err' = Error("FileNotFoundError", "not_found")
    /\ UNCHANGED <<file, args, df, attempts, parse_log, invalid_dates, window>>

\* pd.read_excel(file_path, engine=...) for '.xlsx' and '.xls'.
ReadExcel ==
    /\ pc = "Decode"
    /\ lower(file.ext) \in {".xlsx", ".xls"}
    /\ LET engine == IF lower(file.ext) = ".xlsx" THEN "openpyxl" ELSE "xlrd"
       IN  IF file.read[engine] = "ok"
           THEN /\ df' = read_table(file, engine)
                /\ pc' = stage_after(pc)
                /\ err' = err
           ELSE /\ df' = df
                /\ pc' = "Failed"
                /\ err' = wrap(Error("Exception", "read_excel"))
    /\ UNCHANGED <<file, args, attempts, parse_log, invalid_dates, window>>

\* One turn of the loop of try_read_csv; the raise after the loop belongs to
\* the turn that fails on the last encoding.
TryEncoding ==
    /\ pc = "Decode"
    /\ lower(file.ext) = ".csv"
    /\ Len(attempts) < Len(encodings)
    /\ LET encoding == encodings[Len(attempts) + 1]
       IN  /\ attempts' = Append(attempts, encoding)
           /\ IF file.read[encoding] = "ok"
              THEN /\ df' = read_table(file, encoding)
                   /\ pc' = stage_after(pc)
                   /\ err' = err
              ELSE IF Len(attempts') = Len(encodings)
              THEN /\ df' = df
                   /\ pc' = "Failed"
                   /\ err' = wrap(Error("ValueError", "no_encoding"))
              ELSE UNCHANGED <<df, pc, err>>
    /\ UNCHANGED <<file, args, parse_log, invalid_dates, window>>

\* else: raise ValueError("Formato de archivo no soportado")
UnsupportedFormat ==
    /\ pc = "Decode"
    /\ lower(file.ext) \notin {".xlsx", ".xls", ".csv"}
    /\ pc' = "Failed"
    /\ err' = wrap(Error("ValueError", "unsupported_format"))
    /\ UNCHANGED <<file, args, df, attempts, parse_log, invalid_dates, window>>

\* df = clean_and_validate_data(df)
Validate ==
    /\ pc = "Validate"
    /\ IF missing_columns(df) # <<>>
       THEN /\ pc' = "Failed"
            /\ err' = wrap([Error("ValueError", "missing_columns")
                              EXCEPT !.missing = missing_columns(df)])
            /\ df' = df
       ELSE /\ pc' = stage_after(pc)
            /\ err' = err
            /\ df' = clean_and_validate_data(df)
    /\ UNCHANGED <<file, args, attempts, parse_log, invalid_dates, window>>

\* The lines parse_dates prints while it is applied to one column, in row order.
PrintedFor(rows, col) ==
    LET bad == SelectSeq(rows, LAMBDA r : parse_dates_prints(r.c[col]))
    IN  [ i \in DOMAIN bad |->
            [col |-> col, ix |-> bad[i].ix, raw |-> bad[i].c[col]] ]

\* invalid_dates = df[df[date_col].isna()][['Activity Number', date_col]]
InvalidDates(rows, col) ==
    LET bad == SelectSeq(rows, LAMBDA r : isna(r.c[col]))
    IN  [ i \in DOMAIN bad |-> bad[i].ix ]

\* for date_col in [...]: df[date_col] = df[date_col].apply(parse_dates), and
\* the warning with the rows whose date is missing afterwards.
NormalizeDates ==
    /\ pc = "NormalizeDates"
    /\ LET parsed == [ i \in DOMAIN df.rows |->
                         [ df.rows[i] EXCEPT
                             !.c["Start Date (CET)"] = parse_dates(@),
                             !.c["End Date (CET)"] = parse_dates(@) ] ]
       IN  /\ df' = [df EXCEPT !.rows = parsed]
           /\ parse_log' = PrintedFor(df.rows, date_columns[1])
                             \o PrintedFor(df.rows, date_columns[2])
           /\ invalid_dates' =
                 [ col \in Range(date_columns) |-> InvalidDates(parsed, col) ]
    /\ pc' = stage_after(pc)
    /\ UNCHANGED <<file, args, attempts, window, err>>

\* df = df.dropna(subset=[...]); if df.empty: raise ValueError
DropNullDates ==
    /\ pc = "DropNullDates"
    /\ LET kept == dropna_dates(df.rows)
       IN  /\ df' = [df EXCEPT !.rows = kept]
           /\ IF kept = <<>>
              THEN /\ pc' = "Failed"
                   /\ err' = wrap(Error("ValueError", "no_valid_data"))
              ELSE /\ pc' = stage_after(pc)
                   /\ err' = err
    /\ UNCHANGED <<file, args, attempts, parse_log, invalid_dates, window>>

\* df = df[df['Activity Number'].str.startswith('Prod', na=False)].  The .str
\* accessor raises AttributeError on a column whose dtype is not object.
FilterPrefix ==
    /\ pc = "FilterPrefix"
    /\ IF df.dtype # "object"
       THEN /\ df' = df
            /\ pc' = "Failed"
            /\ err' = wrap(Error("AttributeError", "str_accessor"))
       ELSE LET kept == SelectSeq(df.rows,
                           LAMBDA r : prefix_keep(r.c["Activity Number"]))
            IN  /\ df' = [df EXCEPT !.rows = kept]
                /\ IF kept = <<>>
                   THEN /\ pc' = "Failed"
                        /\ err' = wrap(Error("ValueError", "no_prod"))
                   ELSE /\ pc' = stage_after(pc)
                        /\ err' = err
    /\ UNCHANGED <<file, args, attempts, parse_log, invalid_dates, window>>

\* The two datetime.strptime(..., '%d/%m/%Y %H:%M'), the start filter first.
ParseWindow ==
    /\ pc = "ParseWindow"
    /\ IF ~strptime_ok(args.start_date_filter, filter_format)
       THEN /\ pc' = "Failed"
            /\ err' = wrap(Error("ValueError", "bad_start_filter"))
            /\ window' = window
       ELSE IF ~strptime_ok(args.end_date_filter, filter_format)
       THEN /\ pc' = "Failed"
            /\ err' = wrap(Error("ValueError", "bad_end_filter"))
            /\ window' = window
       ELSE /\ pc' = stage_after(pc)
            /\ err' = err
            /\ window' = [ parsed |-> TRUE,
                           start_date |-> args.start_date_filter.t,
                           end_date |-> args.end_date_filter.t ]
    /\ UNCHANGED <<file, args, df, attempts, parse_log, invalid_dates>>

\* The date-range filter and its emptiness check.
FilterRange ==
    /\ pc = "FilterRange"
    /\ LET kept == SelectSeq(df.rows, LAMBDA r : range_keep(r, window))
       IN  /\ df' = [df EXCEPT !.rows = kept]
           /\ IF kept = <<>>
              THEN /\ pc' = "Failed"
                   /\ err' = wrap(Error("ValueError", "no_rows_in_range"))
              ELSE /\ pc' = stage_after(pc)
                   /\ err' = err
    /\ UNCHANGED <<file, args, attempts, parse_log, invalid_dates, window>>

\* df['Duration (Hours)'] = ...; return df
ComputeDuration ==
    /\ pc = "ComputeDuration"
    /\ df' = [ df EXCEPT
                 !.cols = Append(@, "Duration (Hours)"),
                 !.rows = [ i \in DOMAIN df.rows |-> with_duration(df.rows[i]) ] ]
    /\ pc' = stage_after(pc)
    /\ UNCHANGED <<file, args, attempts, parse_log, invalid_dates, window, err>>

Next ==
    \/ CheckExists
    \/ ReadExcel
    \/ TryEncoding
    \/ UnsupportedFormat
    \/ Validate
    \/ NormalizeDates
    \/ DropNullDates
    \/ FilterPrefix
    \/ ParseWindow
    \/ FilterRange
    \/ ComputeDuration

-----------------------------------------------------------------------------
\* Inputs: the file on disk and the two filter arguments

ProdX == Str(<< "P", "r", "o", "d", "X" >>)
prodX == Str(<< "p", "r", "o", "d", "X" >>)
Junk == Str(<< "?" >>)
Text == Str(<< "a" >>)

Readers == Range(encodings) \cup {"openpyxl", "xlrd"}
Outcomes == {"ok", "UnicodeDecodeError", "Exception"}

AllOk == [r \in Readers |-> "ok"]

\* A row whose three date-free text columns (and any extra column) hold txt.
MkRow(cols, id, start, end, txt) ==
    [ col \in Range(cols) |->
        CASE col = "Activity Number" -> id
          [] col = "Start Date (CET)" -> start
          [] col = "End Date (CET)" -> end
          [] OTHER -> txt ]

\* The tables of at most MaxRows rows drawn from rowset.
Tables(cols, rowset) ==
    { [cols |-> cols, rows |-> rs] :
        rs \in UNION { [1 .. n -> rowset] : n \in 0 .. MaxRows } }

NoTable == [cols |-> <<>>, rows |-> <<>>]

NoFile == [exists |-> FALSE, ext |-> ".csv", read |-> AllOk, table |-> NoTable]

Csv(table) == [exists |-> TRUE, ext |-> ".csv", read |-> AllOk, table |-> table]

Args(from, to) == [start_date_filter |-> from, end_date_filter |-> to]

\* Date cells of a file: missing, unparsable, or an instant in the 2-digit layout.
DateCells == {NaN, Junk} \cup { DateText("%y", t) : t \in Times }

\* Filter arguments: unparsable, or an instant in the 4-digit layout.
FilterTexts == {Junk} \cup { DateText("%Y", t) : t \in Times }

AllArgs == { Args(from, to) : from \in FilterTexts, to \in FilterTexts }

WideArgs == { Args(DateText("%Y", 0), DateText("%Y", MaxT)) }

Ids == {ProdX, prodX, NaN}

\* A row whose every cell is missing.
EmptyRow(cols) == MkRow(cols, NaN, NaN, NaN, NaN)

\* One good row, for the files whose interest is how they are read.
GoodRow(cols) == MkRow(cols, ProdX, DateText("%y", 0), DateText("%y", MaxT), Text)

ColumnSets ==
    { required_columns,
      Append(required_columns, "Extra"),
      << "Responsible Person", "End Date (CET)", "Start Date (CET)",
         "Milestone/task", "Activity", "Activity Number" >>,
      << "Activity Number", "Milestone/task", "Start Date (CET)",
         "End Date (CET)" >>,
      << "Extra", "Activity" >>,
      << >> }

\* Files that take every path through the decoder and the validator.
BaseFiles ==
    {NoFile}
    \cup { [exists |-> TRUE, ext |-> ext, read |-> read,
            table |-> [cols |-> cols, rows |-> << GoodRow(cols) >>]] :
             ext \in {".csv", ".CSV", ".xlsx", ".XLS", ".txt"},
             read \in { AllOk,
                        [AllOk EXCEPT !["utf-8"] = "UnicodeDecodeError",
                                      !["openpyxl"] = "Exception"],
                        [r \in Readers |-> "Exception"] },
             cols \in ColumnSets }

TypeInit ==
    /\ pc = "Exists"
    /\ df = NoDf
    /\ attempts = <<>>
    /\ parse_log = <<>>
    /\ invalid_dates = NoReport
    /\ window = NoWindow
    /\ err = NoErr

\* The call read_and_process_data(file, args...) for the inputs of a family,
\* and for the files of BaseFiles.
InitOn(files, arguments) ==
    /\ \/ /\ file \in files
          /\ args \in arguments
       \/ /\ file \in BaseFiles
          /\ args \in WideArgs
    /\ TypeInit

\* Rows that differ in the stage that rejects them: good rows at the ends of
\* the time line, an unparsable start, a missing end, each under the three
\* identifiers, and a row with no cell at all.
StageRows ==
    { MkRow(required_columns, id, d[1], d[2], Text) :
        id \in Ids,
        d \in { << DateText("%y", 0), DateText("%y", 0) >>,
                << DateText("%y", MaxT), DateText("%y", MaxT) >>,
                << DateText("%y", 0), DateText("%y", MaxT) >>,
                << DateText("%y", MaxT), DateText("%y", 0) >>,
                << Junk, DateText("%y", 0) >>,
                << DateText("%y", 0), NaN >> } }
    \cup { EmptyRow(required_columns) }

Init ==
    InitOn({ Csv(t) : t \in Tables(required_columns, StageRows) }, AllArgs)

Spec == Init /\ [][Next]_vars

\* Rows for the two row filters: every pair of instants under 'ProdX', and one
\* row for each way of being rejected before the date-range filter.
RangeRows ==
    { MkRow(required_columns, ProdX, DateText("%y", a), DateText("%y", b), Text) :
        a \in Times, b \in Times }
    \cup { MkRow(required_columns, prodX, DateText("%y", 0), DateText("%y", 0), Text),
           MkRow(required_columns, NaN, DateText("%y", 0), DateText("%y", 0), Text),
           MkRow(required_columns, ProdX, Junk, DateText("%y", 0), Text),
           MkRow(required_columns, ProdX, DateText("%y", 0), NaN, Text) }

InitRange ==
    InitOn({ Csv(t) : t \in Tables(required_columns, RangeRows) }, AllArgs)

SpecRange == InitRange /\ [][Next]_vars

\* Rows for the date normalizer: every pair of date cells, a date in the layout
\* of the filter arguments included.
DateRows ==
    { MkRow(required_columns, ProdX, start, end, Text) :
        start \in DateCells \cup {DateText("%Y", 0)},
        end \in DateCells \cup {DateText("%Y", 0)} }
    \cup { EmptyRow(required_columns) }

InitDates ==
    InitOn({ Csv(t) : t \in Tables(required_columns, DateRows) }, WideArgs)

SpecDates == InitDates /\ [][Next]_vars

\* Rows for the prefix filter: identifiers around the prefix, missing and
\* numeric ones, with good dates or an unparsable start.
PrefixIds ==
    { ProdX, prodX, NaN, Num,
      Str(Prod), Str(<< "P", "r", "o" >>), Str(<< "X", "P", "r", "o", "d" >>) }

PrefixRows ==
    { MkRow(required_columns, id, start, DateText("%y", MaxT), Text) :
        id \in PrefixIds, start \in {DateText("%y", 0), Junk} }

InitPrefix ==
    InitOn({ Csv(t) : t \in Tables(required_columns, PrefixRows) }, WideArgs)

SpecPrefix == InitPrefix /\ [][Next]_vars

\* Tables for the validator: any columns in any of these orders, and rows that
\* are empty, full, or filled in one column only.
SchemaColumnSets ==
    ColumnSets
    \cup { SelectSeq(Append(required_columns, "Extra"), LAMBDA col : col # gone) :
             gone \in Range(required_columns) }
    \cup { << "Activity", "Responsible Person" >>,
           << "Extra", "End Date (CET)", "Activity Number", "Start Date (CET)",
              "Milestone/task" >> }

SchemaRows(cols) ==
    { EmptyRow(cols), GoodRow(cols) }
    \cup { [col \in Range(cols) |-> IF col = only THEN Text ELSE NaN] :
             only \in Range(cols) \cap {"Extra", "Activity"} }

InitSchema ==
    InitOn(UNION { { Csv(t) : t \in Tables(cols, SchemaRows(cols)) } :
                     cols \in SchemaColumnSets },
           WideArgs)

SpecSchema == InitSchema /\ [][Next]_vars

\* Files for try_read_csv: every outcome of every encoding.
CsvFiles ==
    { [ exists |-> TRUE, ext |-> ext,
        read   |-> [r \in Readers |-> IF r \in Range(encodings) THEN o[r] ELSE "ok"],
        table  |-> [cols |-> required_columns,
                    rows |-> << GoodRow(required_columns) >>] ] :
        o \in [Range(encodings) -> Outcomes], ext \in {".csv", ".CSV"} }

InitCsv == InitOn(CsvFiles, WideArgs)

SpecCsv == InitCsv /\ [][Next]_vars

-----------------------------------------------------------------------------
\* What the claims speak of, read off the inputs of the call

RequiredSet ==
    { "Activity Number", "Activity", "Milestone/task", "Start Date (CET)",
      "End Date (CET)", "Responsible Person" }

DeclaredEncodings == << "utf-8", "latin1", "iso-8859-1", "cp1252" >>

InputRows == file.table.rows

AbsentColumns == RequiredSet \ Range(file.table.cols)

IsMissing(cell) == cell.k = "nan"

\* The cell is a text in day/month/2-digit-year (resp. 4-digit-year) layout.
SpellsShortDate(cell) == cell.k = "date" /\ cell.s = << "%y" >>
SpellsLongDate(cell) == cell.k = "date" /\ cell.s = << "%Y" >>

HasProdPrefix(cell) ==
    /\ cell.k = "str"
    /\ Len(cell.s) >= 4
    /\ cell.s[1] = "P" /\ cell.s[2] = "r" /\ cell.s[3] = "o" /\ cell.s[4] = "d"

Extension ==
    CASE file.ext \in {".csv", ".CSV"} -> "csv"
      [] file.ext \in {".xlsx", ".XLSX"} -> "xlsx"
      [] file.ext \in {".xls", ".XLS"} -> "xls"
      [] OTHER -> "other"

DecodeFails ==
    \/ ~file.exists
    \/ Extension = "other"
    \/ Extension = "xlsx" /\ file.read["openpyxl"] # "ok"
    \/ Extension = "xls" /\ file.read["xlrd"] # "ok"
    \/ Extension = "csv"
         /\ \A i \in DOMAIN DeclaredEncodings : file.read[DeclaredEncodings[i]] # "ok"

\* Input rows with both dates parsable, those among them with the prefix, and
\* those among them inside the window.
GoodIx ==
    IF AbsentColumns # {} THEN {}
    ELSE { i \in DOMAIN InputRows :
             /\ SpellsShortDate(InputRows[i]["Start Date (CET)"])
             /\ SpellsShortDate(InputRows[i]["End Date (CET)"]) }

ProdIx == { i \in GoodIx : HasProdPrefix(InputRows[i]["Activity Number"]) }

WindowOk ==
    /\ SpellsLongDate(args.start_date_filter)
    /\ SpellsLongDate(args.end_date_filter)

From == args.start_date_filter.t
To == args.end_date_filter.t

InRangeIx ==
    { i \in ProdIx :
        /\ InputRows[i]["Start Date (CET)"].t >= From
        /\ InputRows[i]["End Date (CET)"].t <= To }

\* The stage of the spec's state machine a statement of the code belongs to.
SpecStages ==
    << "Decode", "Validate", "NormalizeDates", "DropNullDates", "FilterPrefix",
       "ParseWindow", "FilterRange", "ComputeDuration", "Done" >>

SpecStage(stage) == IF stage = "Exists" THEN "Decode" ELSE stage

Rank(stage) == CHOOSE j \in DOMAIN SpecStages : SpecStages[j] = SpecStage(stage)

\* The first stage that fails on the inputs, "Done" when none does.
FirstFailure ==
    IF DecodeFails THEN "Decode"
    ELSE IF AbsentColumns # {} THEN "Validate"
    ELSE IF GoodIx = {} THEN "DropNullDates"
    ELSE IF ProdIx = {} THEN "FilterPrefix"
    ELSE IF ~WindowOk THEN "ParseWindow"
    ELSE IF InRangeIx = {} THEN "FilterRange"
    ELSE "Done"

\* The run has executed the stage: it failed there, or went past it.
Ran(stage) ==
    IF pc = "Failed" THEN Rank(err.stage) >= Rank(stage)
    ELSE Rank(pc) > Rank(stage)

FailedAt(stage) == pc = "Failed" /\ err.stage = stage

IxOf(d) == { d.rows[i].ix : i \in DOMAIN d.rows }

InFileOrder(d) ==
    \A i, j \in DOMAIN d.rows : i < j => d.rows[i].ix < d.rows[j].ix

-----------------------------------------------------------------------------
\* A step stays in its stage or moves to the next one, or fails.
StepInOrder ==
    pc' # pc =>
        \/ pc' = "Failed" /\ pc # "Done"
        \/ pc # "Failed" /\ pc' # "Failed"
             /\ Rank(pc') \in {Rank(pc), Rank(pc) + 1}

\* The run fails at the first stage that fails on the inputs, returns only
\* when none does, and meanwhile has not gone past that stage.
FailsAtFirstFailure ==
    /\ pc = "Failed" => SpecStage(err.stage) = FirstFailure
    /\ pc = "Done" => FirstFailure = "Done"
    /\ Running => Rank(pc) <= Rank(FirstFailure)

\* C1: the stages run in the order Decode, Validate, NormalizeDates,
\* DropNullDates, FilterPrefix, ParseWindow, FilterRange, ComputeDuration,
\* Done, never back to an earlier one; a stage is entered only when every
\* earlier stage succeeded, so the error reported is that of the first stage
\* that fails on the inputs.
C1_LinearStages == [][StepInOrder]_vars /\ []FailsAtFirstFailure

\* C1 witness: a malformed window is reported, after one row of several
\* survived the null-date drop and the prefix filter.
C1_Witness ==
    /\ FailedAt("ParseWindow")
    /\ Len(df.rows) >= 1
    /\ Len(InputRows) > Len(df.rows)

-----------------------------------------------------------------------------
\* C2 as stated: every failure of read_and_process_data reaches the caller
\* wrapped in the generic error.
C2_EveryFailureWrapped == pc = "Failed" => err.wrapped

\* C2 amended: every failure reaches the caller with its cause, wrapped in the
\* generic error unless it is the FileNotFoundError of the existence check,
\* which is raised before the try block and reaches the caller as it is; no
\* failure is suppressed: the call returns only when no stage fails.
C2_WrappedUnlessNotFound ==
    /\ pc = "Failed" =>
          /\ err.kind # "" /\ err.what # ""
          /\ err.wrapped <=> err.kind # "FileNotFoundError"
          /\ err.kind = "FileNotFoundError" <=> ~file.exists
    /\ pc # "Failed" => err = NoErr
    /\ pc = "Done" => FirstFailure = "Done"

\* C2 witness: a failure of a late stage, wrapped.
C2_Witness ==
    /\ FailedAt("FilterRange")
    /\ err.wrapped
    /\ err.kind = "ValueError"

-----------------------------------------------------------------------------
\* The rows of the frame are rows of the file, unchanged but for the two dates,
\* which hold the instants the texts spell.
RowsFromFile(d) ==
    \A i \in DOMAIN d.rows :
        LET r == d.rows[i]
        IN  /\ r.ix \in DOMAIN InputRows
            /\ \A col \in DOMAIN InputRows[r.ix] :
                 IF col \in {"Start Date (CET)", "End Date (CET)"}
                 THEN r.c[col].t = InputRows[r.ix][col].t
                 ELSE r.c[col] = InputRows[r.ix][col]

\* C3: when the call returns, the frame is not empty and every row of it has
\* both dates, an identifier starting with 'Prod', start >= from and
\* end <= to, and is a row of the file, in file order; no row of the file with
\* these properties is left out.
C3_ReturnedDataset ==
    pc = "Done" =>
        /\ df.rows # <<>>
        /\ \A i \in DOMAIN df.rows :
             LET r == df.rows[i]
             IN  /\ r.c["Start Date (CET)"].k = "ts"
                 /\ r.c["End Date (CET)"].k = "ts"
                 /\ HasProdPrefix(r.c["Activity Number"])
                 /\ r.c["Start Date (CET)"].t >= From
                 /\ r.c["End Date (CET)"].t <= To
        /\ WindowOk
        /\ RowsFromFile(df)
        /\ InFileOrder(df)
        /\ IxOf(df) = InRangeIx

\* C3 witness: a row returned, and an earlier row of the file filtered out.
C3_Witness ==
    /\ pc = "Done"
    /\ df.rows # <<>>
    /\ df.rows[1].ix > 1

-----------------------------------------------------------------------------
\* The window is well formed and inverted.
Inverted == WindowOk /\ From > To

\* C4 as stated: under an inverted window the date-range filter keeps no row,
\* so the run never gets past it.
C4_InvertedKeepsNothing == Inverted => pc \notin {"ComputeDuration", "Done"}

\* C4 amended: under an inverted window the date-range filter keeps exactly
\* the rows with start >= from and end <= to, each of which ends before it
\* starts; every row with start <= end is dropped; the run fails at the filter
\* exactly when no row that reaches it has start >= from and end <= to, and
\* otherwise returns those rows.
C4_InvertedKeepsBackwardRows ==
    (Inverted /\ Ran("FilterRange")) =>
        /\ IxOf(df) = InRangeIx
        /\ \A i \in DOMAIN df.rows :
             df.rows[i].c["End Date (CET)"].t < df.rows[i].c["Start Date (CET)"].t
        /\ FailedAt("FilterRange") <=> InRangeIx = {}
        /\ FailedAt("FilterRange") => err.what = "no_rows_in_range"

\* C4 witness: an inverted window and a returned row.
C4_Witness ==
    /\ Inverted
    /\ pc = "Done"
    /\ df.rows # <<>>

-----------------------------------------------------------------------------
\* C5: the date-range filter keeps exactly the rows with start >= from and
\* end <= to, bounds included, and fails exactly when there is none.
C5_RangeInclusive ==
    Ran("FilterRange") =>
        /\ IxOf(df) = InRangeIx
        /\ InFileOrder(df)
        /\ FailedAt("FilterRange") <=> InRangeIx = {}
        /\ FailedAt("FilterRange") => err.what = "no_rows_in_range"

\* C5 witness: a row on both bounds is kept while a row that ends one minute
\* after the upper bound is dropped.
C5_Witness ==
    /\ pc = "ComputeDuration"
    /\ \E i \in IxOf(df) :
         /\ InputRows[i]["Start Date (CET)"].t = From
         /\ InputRows[i]["End Date (CET)"].t = To
    /\ \E i \in ProdIx \ IxOf(df) :
         /\ InputRows[i]["Start Date (CET)"].t = From
         /\ InputRows[i]["End Date (CET)"].t = To + 1

-----------------------------------------------------------------------------
\* Input rows with a cell that is not missing: the rows the validator keeps.
KeptByValidator ==
    { i \in DOMAIN InputRows :
        \E col \in DOMAIN InputRows[i] : ~IsMissing(InputRows[i][col]) }

-----------------------------------------------------------------------------
\* Rows whose cell of a date column is a text that matches no pattern, and
\* rows whose cell is missing, among the rows that reach the normalizer.
Unparsable(col) ==
    { i \in KeptByValidator :
        /\ ~IsMissing(InputRows[i][col])
        /\ ~SpellsShortDate(InputRows[i][col]) }

MissingDate(col) == { i \in KeptByValidator : IsMissing(InputRows[i][col]) }

\* The rows parse_dates printed a message for, and the rows of the warning.
Printed(col) == { parse_log[j].ix : j \in { n \in DOMAIN parse_log : parse_log[n].col = col } }
Warned(col) == Range(invalid_dates[col])

DateColumns == {"Start Date (CET)", "End Date (CET)"}

\* C7 as stated: for each date column the diagnostics of the normalization
\* name exactly the rows whose cell was not missing and matched no pattern.
C7_OnlyUnparsableReported ==
    (Ran("NormalizeDates") /\ AbsentColumns = {}) =>
        \A col \in DateColumns : Printed(col) \cup Warned(col) = Unparsable(col)

\* C7 amended: for each date column parse_dates prints one message, with the
\* raw text, for exactly the cells that are not missing and match no pattern
\* (k messages for k such cells) and none for a missing cell; both kinds of
\* cell become null; the warning that follows lists every row whose date is
\* null after normalization, the rows whose cell was already missing
\* included.
C7_DiagnosticsPerColumn ==
    (Ran("NormalizeDates") /\ AbsentColumns = {}) =>
        /\ \A col \in DateColumns :
              /\ Printed(col) = Unparsable(col)
              /\ Cardinality({ n \in DOMAIN parse_log : parse_log[n].col = col })
                   = Cardinality(Unparsable(col))
              /\ Warned(col) = Unparsable(col) \cup MissingDate(col)
              /\ Len(invalid_dates[col]) = Cardinality(Warned(col))
        /\ \A n \in DOMAIN parse_log :
              /\ parse_log[n].col \in DateColumns
              /\ parse_log[n].ix \in DOMAIN InputRows
              /\ parse_log[n].raw = InputRows[parse_log[n].ix][parse_log[n].col]
        /\ pc = "DropNullDates" =>
              \A i \in DOMAIN df.rows : \A col \in DateColumns :
                 df.rows[i].c[col].k =
                    IF df.rows[i].ix \in Unparsable(col) \cup MissingDate(col)
                    THEN "nan" ELSE "ts"

\* C7 witness: one start date is missing and another is unparsable.
C7_Witness ==
    /\ pc = "DropNullDates"
    /\ MissingDate("Start Date (CET)") # {}
    /\ Unparsable("Start Date (CET)") # {}

-----------------------------------------------------------------------------
\* C8: an unparsable date never aborts the run by itself: the normalization
\* does not fail, the rows without both dates are dropped and every other row
\* goes on unchanged; the run fails at the null-date drop, with 'no valid data
\* after cleaning', exactly when no row has both dates.
C8_BadDateDropsRow ==
    /\ ~FailedAt("NormalizeDates")
    /\ Ran("DropNullDates") =>
          /\ FailedAt("DropNullDates") <=> GoodIx = {}
          /\ FailedAt("DropNullDates") => err.what = "no_valid_data" /\ err.wrapped
          /\ pc = "FilterPrefix" =>
                /\ IxOf(df) = GoodIx
                /\ InFileOrder(df)
                /\ RowsFromFile(df)

\* C8 witness: a row with an unparsable date was dropped and the other row of
\* the file goes on.
C8_Witness ==
    /\ pc = "FilterPrefix"
    /\ Len(InputRows) = 2
    /\ Len(df.rows) = 1
    /\ parse_log # <<>>

-----------------------------------------------------------------------------
Last(seq) == seq[Len(seq)]

\* The file exists and its extension sends it to try_read_csv.
ReadAsCsv == file.exists /\ Extension = "csv"

\* C9: try_read_csv tries utf-8, latin1, iso-8859-1, cp1252 in this order; an
\* attempt that fails in any way is followed by the next one; the table is
\* the one read by the first encoding that succeeds, after which no other is
\* tried; it fails only after the four of them failed.
C9_EncodingFallback ==
    /\ Len(attempts) <= Len(DeclaredEncodings)
    /\ attempts = SubSeq(DeclaredEncodings, 1, Len(attempts))
    /\ \A i \in 1 .. Len(attempts) - 1 : file.read[attempts[i]] # "ok"
    /\ ~ReadAsCsv => attempts = <<>>
    /\ (ReadAsCsv /\ pc = "Decode") =>
          \A i \in DOMAIN attempts : file.read[attempts[i]] # "ok"
    /\ (ReadAsCsv /\ Ran("Decode")) =>
          /\ attempts # <<>>
          /\ FailedAt("Decode") <=>
                \A i \in DOMAIN DeclaredEncodings : file.read[DeclaredEncodings[i]] # "ok"
          /\ FailedAt("Decode") =>
                /\ attempts = DeclaredEncodings
                /\ err.what = "no_encoding"
          /\ ~FailedAt("Decode") =>
                /\ file.read[Last(attempts)] = "ok"
                /\ df.enc = Last(attempts)
          /\ pc = "Validate" =>
                /\ df.cols = file.table.cols
                /\ \A i \in DOMAIN df.rows : df.rows[i].c = InputRows[df.rows[i].ix]
                /\ IxOf(df) = DOMAIN InputRows

\* C9 witness: utf-8 fails to decode, latin1 fails otherwise, iso-8859-1
\* reads the table and cp1252 is not tried.
C9_Witness ==
    /\ pc = "Validate"
    /\ attempts = << "utf-8", "latin1", "iso-8859-1" >>
    /\ file.read["utf-8"] = "UnicodeDecodeError"
    /\ file.read["latin1"] = "Exception"
    /\ file.read["cp1252"] = "ok"

-----------------------------------------------------------------------------
\* C10: the prefix filter keeps exactly the rows whose identifier is a text
\* starting with 'Prod', case included; a row with a missing identifier is
\* left out and causes no error; the stage fails, with the EmptyResultError of
\* the filter, exactly when no row is kept.
C10_PrefixFilter ==
    Ran("FilterPrefix") =>
        /\ FailedAt("FilterPrefix") <=> ProdIx = {}
        /\ FailedAt("FilterPrefix") => err.kind = "ValueError" /\ err.what = "no_prod"
        /\ pc = "ParseWindow" =>
              /\ IxOf(df) = ProdIx
              /\ InFileOrder(df)

====
